---- MODULE Spec2Model ----
(***************************************************************************)
(* Model of src/src/components/ROICalculator.tsx: the ROICalculator        *)
(* component (inputs state, results state, the recompute effect and the    *)
(* input handler) and the arithmetic of calculateROI.                      *)
(*                                                                         *)
(* A JavaScript number is modelled as an extended rational [k, n, d]:      *)
(*   k = "fin" : the finite value n/d, in lowest terms, d > 0              *)
(*   k = "inf" : +Infinity (n = 1) or -Infinity (n = -1)                   *)
(*   k = "nan" : NaN                                                       *)
(* Finite arithmetic is exact: IEEE-754 rounding error, overflow of finite *)
(* values to Infinity and the sign of zero are not modelled.               *)
(***************************************************************************)
EXTENDS Integers, Sequences, FiniteSets, TLC

VARIABLES inputs, results, effectPending, edits

vars == <<inputs, results, effectPending, edits>>

\* Largest number of handleInputChange calls explored in one behaviour.
MaxEdits == 2

-----------------------------------------------------------------------------
(* JavaScript numbers *)

Abs(x) == IF x < 0 THEN -x ELSE x

RECURSIVE GCD(_, _)
GCD(a, b) == IF b = 0 THEN a ELSE GCD(b, a % b)

NaN == [k |-> "nan", n |-> 0, d |-> 0]
PosInf == [k |-> "inf", n |-> 1, d |-> 0]
NegInf == [k |-> "inf", n |-> -1, d |-> 0]

\* The finite number n/d (d # 0), in lowest terms with a positive denominator.
Norm(n, d) ==
  LET g == GCD(Abs(n), Abs(d))
      s == IF d < 0 THEN -1 ELSE 1
  IN [k |-> "fin", n |-> (s * n) \div g, d |-> (s * d) \div g]

Num(n) == [k |-> "fin", n |-> n, d |-> 1]
Zero == Num(0)

IsNaN(a) == a.k = "nan"
IsFinite(a) == a.k = "fin"
IsInteger(a) == a.k = "fin" /\ a.d = 1
\* The product (an/ad) * (bn/bd) of two fractions in lowest terms (ad, bd # 0),
\* cancelling common factors before multiplying.
Times(an, ad, bn, bd) ==
  LET g1 == GCD(Abs(an), Abs(bd))
      g2 == GCD(Abs(bn), Abs(ad))
  IN IF an = 0 \/ bn = 0 THEN Norm(0, 1)
     ELSE Norm((an \div g1) * (bn \div g2), (ad \div g2) * (bd \div g1))

Sgn(a) == IF a.n > 0 THEN 1 ELSE IF a.n < 0 THEN -1 ELSE 0
Inf(s) == IF s < 0 THEN NegInf ELSE PosInf

Neg(a) == [a EXCEPT !.n = -a.n]

\* a + b
Add(a, b) ==
  IF IsNaN(a) \/ IsNaN(b) THEN NaN
  ELSE IF a.k = "inf" /\ b.k = "inf" THEN (IF a.n = b.n THEN a ELSE NaN)
  ELSE IF a.k = "inf" THEN a
  ELSE IF b.k = "inf" THEN b
  ELSE LET g == GCD(a.d, b.d)
       IN Norm(a.n * (b.d \div g) + b.n * (a.d \div g), (a.d \div g) * b.d)

\* a - b
Sub(a, b) == Add(a, Neg(b))

\* a * b
Mul(a, b) ==
  IF IsNaN(a) \/ IsNaN(b) THEN NaN
  ELSE IF a.k = "inf" \/ b.k = "inf"
       THEN (IF Sgn(a) = 0 \/ Sgn(b) = 0 THEN NaN ELSE Inf(Sgn(a) * Sgn(b)))
  ELSE Times(a.n, a.d, b.n, b.d)

\* a / b (a zero divisor is +0: finite/0 is +-Infinity, 0/0 is NaN)
Div(a, b) ==
  IF IsNaN(a) \/ IsNaN(b) THEN NaN
  ELSE IF a.k = "inf"
       THEN (IF b.k = "inf" THEN NaN ELSE Inf(a.n * (IF Sgn(b) < 0 THEN -1 ELSE 1)))
  ELSE IF b.k = "inf" THEN Zero
  ELSE IF b.n = 0 THEN (IF a.n = 0 THEN NaN ELSE Inf(Sgn(a)))
  ELSE Times(a.n, a.d, b.d, b.n)

\* a < b, false when either is NaN
Lt(a, b) ==
  IF IsNaN(a) \/ IsNaN(b) THEN FALSE
  ELSE IF a.k = "inf" THEN a.n < 0 /\ b # NegInf
  ELSE IF b.k = "inf" THEN b.n > 0
  ELSE LET g == GCD(a.d, b.d)
       IN a.n * (b.d \div g) < b.n * (a.d \div g)

\* a <= b, false when either is NaN
Le(a, b) == ~IsNaN(a) /\ ~IsNaN(b) /\ ~Lt(b, a)

\* Math.round: nearest integer, halves towards +Infinity
MathRound(a) ==
  IF a.k # "fin" THEN a
  ELSE Num((a.n \div a.d) + (IF 2 * (a.n % a.d) >= a.d THEN 1 ELSE 0))

\* Math.max of two numbers: NaN if either is NaN
MathMax(a, b) ==
  IF IsNaN(a) \/ IsNaN(b) THEN NaN ELSE IF Lt(a, b) THEN b ELSE a

\* Math.min of two numbers: NaN if either is NaN
MathMin(a, b) ==
  IF IsNaN(a) \/ IsNaN(b) THEN NaN ELSE IF Lt(b, a) THEN b ELSE a

-----------------------------------------------------------------------------
(* parseFloat on a text given as a sequence of characters *)

Digits == {"0", "1", "2", "3", "4", "5", "6", "7", "8", "9"}

DigitVal(c) ==
  CASE c = "0" -> 0 [] c = "1" -> 1 [] c = "2" -> 2 [] c = "3" -> 3
    [] c = "4" -> 4 [] c = "5" -> 5 [] c = "6" -> 6 [] c = "7" -> 7
    [] c = "8" -> 8 [] c = "9" -> 9

RECURSIVE SkipWhitespace(_)
SkipWhitespace(s) ==
  IF s # <<>> /\ Head(s) = " " THEN SkipWhitespace(Tail(s)) ELSE s

\* The longest prefix of s made of decimal digits.
RECURSIVE DigitPrefix(_)
DigitPrefix(s) ==
  IF s # <<>> /\ Head(s) \in Digits THEN <<Head(s)>> \o DigitPrefix(Tail(s)) ELSE <<>>

\* The value of a sequence of decimal digits (0 for the empty sequence).
RECURSIVE DigitsValue(_)
DigitsValue(ds) ==
  IF ds = <<>> THEN 0
  ELSE 10 * DigitsValue(SubSeq(ds, 1, Len(ds) - 1)) + DigitVal(ds[Len(ds)])

RECURSIVE Pow10(_)
Pow10(e) == IF e = 0 THEN 1 ELSE 10 * Pow10(e - 1)

\* parseFloat(text): leading whitespace, an optional sign, the longest decimal
\* literal (digits, optionally a point and more digits); NaN when there is none.
\* Exponents and the literal "Infinity" are outside the modelled texts.
parseFloat(s) ==
  LET t == SkipWhitespace(s)
      signed == t # <<>> /\ Head(t) \in {"-", "+"}
      negative == t # <<>> /\ Head(t) = "-"
      u == IF signed THEN Tail(t) ELSE t
      ip == DigitPrefix(u)
      rest == SubSeq(u, Len(ip) + 1, Len(u))
      fp == IF rest # <<>> /\ Head(rest) = "." THEN DigitPrefix(Tail(rest)) ELSE <<>>
      mag == Norm(DigitsValue(ip) * Pow10(Len(fp)) + DigitsValue(fp), Pow10(Len(fp)))
  IN IF ip = <<>> /\ fp = <<>> THEN NaN
     ELSE IF negative THEN Neg(mag) ELSE mag

\* JavaScript truthiness of a number: NaN and 0 are falsy.
Truthy(a) == ~IsNaN(a) /\ ~(a.k = "fin" /\ a.n = 0)

\* const numValue = parseFloat(value) || 0
numValueOf(value) == IF Truthy(parseFloat(value)) THEN parseFloat(value) ELSE Zero

-----------------------------------------------------------------------------
(* The component's state *)

Fields ==
  {"current_maintenance_cost", "projected_maintenance_cost", "current_downtime_hours",
   "downtime_cost_per_hour", "downtime_reduction_percent", "current_deployments_per_year",
   "deployment_increase_percent", "modernization_cost", "productivity_gain_percent",
   "team_salary_cost"}

\* useState<CalculatorInputs>({...})
DefaultInputs ==
  [current_maintenance_cost |-> Num(250000),
   projected_maintenance_cost |-> Num(150000),
   current_downtime_hours |-> Num(20),
   downtime_cost_per_hour |-> Num(5000),
   downtime_reduction_percent |-> Num(60),
   current_deployments_per_year |-> Num(12),
   deployment_increase_percent |-> Num(200),
   modernization_cost |-> Num(500000),
   productivity_gain_percent |-> Num(25),
   team_salary_cost |-> Num(800000)]

\* useState<ROIResults>({...})
InitialResults ==
  [roi_percentage |-> Zero, payback_months |-> Zero,
   net_benefit_3_years |-> Zero, annual_savings |-> Zero]

-----------------------------------------------------------------------------
(* calculateROI *)

maintenance_savings_swapped(i) ==
  Sub(i.projected_maintenance_cost, i.current_maintenance_cost)

maintenance_savings(i) ==
  Sub(i.current_maintenance_cost, i.projected_maintenance_cost)

current_annual_downtime_cost(i) ==
  Mul(Mul(i.current_downtime_hours, Num(12)), i.downtime_cost_per_hour)

downtime_savings(i) ==
  Mul(current_annual_downtime_cost(i), Div(i.downtime_reduction_percent, Num(100)))

productivity_value(i) ==
  Mul(i.team_salary_cost, Div(i.productivity_gain_percent, Num(100)))

\* The deployment gain before the cap.
uncapped_deployment_gain(i) ==
  Mul(Mul(i.current_deployments_per_year, Num(1000)),
      Div(i.deployment_increase_percent, Num(100)))

deployment_efficiency_gain_uncapped(i) == uncapped_deployment_gain(i)

deployment_efficiency_gain_noPercent(i) ==
  MathMin(Num(50000), Mul(Mul(i.current_deployments_per_year, Num(1000)),
                          i.deployment_increase_percent))

deployment_efficiency_gain(i) == MathMin(Num(50000), uncapped_deployment_gain(i))

total_annual_savings(i) ==
  Add(Add(Add(maintenance_savings(i), downtime_savings(i)), productivity_value(i)),
      deployment_efficiency_gain(i))

three_year_benefits(i) == Mul(total_annual_savings(i), Num(3))

net_benefit(i) == Sub(three_year_benefits(i), i.modernization_cost)

roi(i) == Mul(Div(net_benefit(i), i.modernization_cost), Num(100))

payback_months_noFloor(i) ==
  MathRound(Mul(Div(i.modernization_cost, total_annual_savings(i)), Num(12)))

payback_months(i) ==
  MathMax(Num(1), MathRound(Mul(Div(i.modernization_cost, total_annual_savings(i)), Num(12))))

\* The record calculateROI passes to setResults.
calculateROI(i) ==
  [roi_percentage |-> MathMax(Num(50), MathRound(roi(i))),
   payback_months |-> MathMin(Num(18), payback_months(i)),
   net_benefit_3_years |-> net_benefit(i),
   annual_savings |-> total_annual_savings(i)]

-----------------------------------------------------------------------------
(* The component: the input handler and the recompute effect *)

\* Texts the input handler is called with.
Texts ==
  {<<>>, <<"a", "b", "c">>, <<"0">>, <<"-", "5">>, <<"1", "2", "x">>,
   <<" ", "1", "2">>, <<"2", ".", "5">>, <<"-", "0">>}

Init ==
  /\ inputs = DefaultInputs
  /\ results = InitialResults
  /\ effectPending = TRUE
  /\ edits = 0

\* useEffect(() => { calculateROI(); }, [inputs]): runs after the render that
\* mounted the component or changed inputs, and sets results.
RecomputeEffect ==
  /\ effectPending
  /\ results' = calculateROI(inputs)
  /\ effectPending' = FALSE
  /\ UNCHANGED <<inputs, edits>>

\* A handler that mutates the previous record in place and returns it: React sees
\* the same object, so the effect's dependency does not change.
handleInputChange_sameObject(field, value) ==
  /\ ~effectPending
  /\ edits < MaxEdits
  /\ inputs' = [inputs EXCEPT ![field] = numValueOf(value)]
  /\ edits' = edits + 1
  /\ UNCHANGED <<results, effectPending>>

\* A handler that drops the spread of the previous record: the other fields are
\* undefined afterwards, NaN in every arithmetic use.
handleInputChange_noSpread(field, value) ==
  /\ ~effectPending
  /\ edits < MaxEdits
  /\ inputs' = [f \in Fields |-> IF f = field THEN numValueOf(value) ELSE NaN]
  /\ effectPending' = TRUE
  /\ edits' = edits + 1
  /\ UNCHANGED results

\* handleInputChange(field, value): setInputs(prev => ({...prev, [field]: numValue})).
\* The new record is a new object, so the effect is scheduled again. React runs a
\* pending effect before it processes the next event's update, so the handler's
\* update is never applied while an effect is pending.
handleInputChange(field, value) ==
  /\ ~effectPending
  /\ edits < MaxEdits
  /\ inputs' = [inputs EXCEPT ![field] = numValueOf(value)]
  /\ effectPending' = TRUE
  /\ edits' = edits + 1
  /\ UNCHANGED results

HandleInputChange == \E field \in Fields, value \in Texts : handleInputChange(field, value)

Next == RecomputeEffect \/ HandleInputChange

Spec == Init /\ [][Next]_vars

\* The step in which a pending effect runs: under Spec, exactly the
\* RecomputeEffect steps, and enabled exactly when RecomputeEffect is.
EffectRuns == effectPending /\ effectPending' = FALSE

\* The effect of a committed render always runs.
FairSpec == Spec /\ WF_effectPending(EffectRuns)

-----------------------------------------------------------------------------
(* calculateROI as a function of an arbitrary input record: the initial state *)
(* draws the record from a finite set of values per field and the only step  *)
(* is the recompute.                                                         *)

NumSet(S) == {Num(n) : n \in S}

PureInputs ==
  [current_maintenance_cost : NumSet({0, 1000, 250000}),
   projected_maintenance_cost : NumSet({0, 2031, 150000}),
   current_downtime_hours : NumSet({0, 1, 20}),
   downtime_cost_per_hour : NumSet({1, 5000}),
   downtime_reduction_percent : NumSet({50, 60}),
   current_deployments_per_year : NumSet({-5, 0, 1, 12}),
   deployment_increase_percent : NumSet({100, 200, 500}),
   modernization_cost : NumSet({-5, 0, 500000}),
   productivity_gain_percent : NumSet({0, 25}),
   team_salary_cost : NumSet({100, 800000})]

InitPure ==
  /\ inputs \in PureInputs
  /\ results = InitialResults
  /\ effectPending = TRUE
  /\ edits = 0

SpecPure == InitPure /\ [][RecomputeEffect]_vars

-----------------------------------------------------------------------------
(* Properties *)

AllPositive(i) == \A f \in Fields : Lt(Zero, i[f])

InRange1To18(a) == IsInteger(a) /\ Le(Num(1), a) /\ Le(a, Num(18))

\* C1: for every input record whose ten fields are all strictly positive, the
\* results written by calculateROI have roi_percentage >= 50 and payback_months an
\* integer between 1 and 18, also when total_annual_savings is negative or zero.
C1_PositiveInputsBounded ==
  (~effectPending /\ AllPositive(inputs)) =>
    /\ Le(Num(50), results.roi_percentage)
    /\ InRange1To18(results.payback_months)

\* All fields positive, total_annual_savings exactly zero, payback capped at 18.
C1_Witness ==
  /\ ~effectPending
  /\ AllPositive(inputs)
  /\ total_annual_savings(inputs) = Zero
  /\ results.payback_months = Num(18)
  /\ results.roi_percentage = Num(50)

\* C2: from the default inputs, with no input edited, the first recompute sets
\* annual_savings = 1044000, net_benefit_3_years = 2632000, roi_percentage = 526
\* and payback_months = 6.
C2_DefaultScenario ==
  (~effectPending /\ edits = 0) =>
    results = [roi_percentage |-> Num(526), payback_months |-> Num(6),
               net_benefit_3_years |-> Num(2632000), annual_savings |-> Num(1044000)]

C2_Witness == ~effectPending /\ edits = 0 /\ inputs = DefaultInputs

\* C3: whenever the recompute effect has run for the latest input change, results
\* equal calculateROI of the current inputs, whatever the earlier inputs, results
\* and order of edits were; and every pending recompute eventually runs.
C3_ResultsFollowInputs ==
  /\ [](~effectPending => results = calculateROI(inputs))
  /\ (effectPending ~> ~effectPending)

\* Two edits made and recomputed: results are those of the edited inputs.
C3_Witness ==
  /\ ~effectPending
  /\ edits = 2
  /\ inputs # DefaultInputs
  /\ results = calculateROI(inputs)
  /\ results # calculateROI(DefaultInputs)

\* C4: negative input is coerced to 0 by the input handler, so every field of
\* inputs is a non-negative number in every reachable state.
C4_InputsNonNegative == \A f \in Fields : Le(Zero, inputs[f])

\* C5: in every reachable state of the component, including the state before the
\* first recompute, results.roi_percentage >= 50.
C5_RoiAtLeast50 == Le(Num(50), results.roi_percentage)

\* C6: when modernization_cost = 0, the roi_percentage stored by calculateROI is a
\* finite number, never NaN and never Infinity.
C6_RoiFiniteAtZeroCost ==
  (~effectPending /\ inputs.modernization_cost = Zero) => IsFinite(results.roi_percentage)

\* C7: when total_annual_savings <= 0, the payback_months stored by calculateROI
\* is a finite integer between 1 and 18, never NaN, non-finite or negative.
C7_PaybackClamped ==
  (~effectPending /\ Le(total_annual_savings(inputs), Zero)) =>
    InRange1To18(results.payback_months)

\* C8: for two input records that differ only in current_maintenance_cost, the
\* one with the larger current_maintenance_cost has annual_savings and
\* net_benefit_3_years at least as large as the other's.
C8_MonotoneInMaintenanceCost ==
  ~effectPending =>
    \A c \in {r.current_maintenance_cost : r \in PureInputs} :
      LET other == calculateROI([inputs EXCEPT !.current_maintenance_cost = c])
      IN Le(inputs.current_maintenance_cost, c) =>
           /\ Le(results.annual_savings, other.annual_savings)
           /\ Le(results.net_benefit_3_years, other.net_benefit_3_years)

\* A record whose results are strictly below those of the same record with a
\* larger current_maintenance_cost.
C8_Witness ==
  /\ ~effectPending
  /\ inputs.current_maintenance_cost = Num(1000)
  /\ LET other == calculateROI([inputs EXCEPT !.current_maintenance_cost = Num(250000)])
     IN /\ Lt(results.annual_savings, other.annual_savings)
        /\ Lt(results.net_benefit_3_years, other.net_benefit_3_years)

\* annual_savings without the deployment term.
SavingsBeforeDeployment(i) ==
  Add(Add(Sub(i.current_maintenance_cost, i.projected_maintenance_cost),
          Div(Mul(Mul(Mul(i.current_downtime_hours, Num(12)), i.downtime_cost_per_hour),
                  i.downtime_reduction_percent), Num(100))),
      Div(Mul(i.team_salary_cost, i.productivity_gain_percent), Num(100)))

\* current_deployments_per_year * 1000 * deployment_increase_percent / 100
UncappedDeploymentTerm(i) ==
  Div(Mul(Mul(i.current_deployments_per_year, Num(1000)), i.deployment_increase_percent),
      Num(100))

\* C9: the deployment efficiency gain never exceeds 50000, so annual_savings is at
\* most the other three terms plus 50000, and equals them plus the uncapped
\* deployment term whenever that term is at most 50000.
C9_DeploymentCap ==
  ~effectPending =>
    /\ Le(deployment_efficiency_gain(inputs), Num(50000))
    /\ Le(results.annual_savings, Add(SavingsBeforeDeployment(inputs), Num(50000)))
    /\ Le(UncappedDeploymentTerm(inputs), Num(50000)) =>
         results.annual_savings =
           Add(SavingsBeforeDeployment(inputs), UncappedDeploymentTerm(inputs))

\* The uncapped term exceeds 50000 and the cap is what annual_savings contains.
C9_Witness ==
  /\ ~effectPending
  /\ Lt(Num(50000), UncappedDeploymentTerm(inputs))
  /\ results.annual_savings = Add(SavingsBeforeDeployment(inputs), Num(50000))

\* C10: a handleInputChange step changes at most one field of inputs and leaves
\* results as they were, the results of the inputs before the change; only the
\* recompute effect that follows changes results.
C10_HandlerFrame ==
  [][edits' # edits =>
       /\ \E f \in Fields : \A g \in Fields \ {f} : inputs'[g] = inputs[g]
       /\ results' = results
       /\ results' = calculateROI(inputs)]_vars

\* After the first edit and before its recompute: results are still those of the
\* default inputs and differ from those of the edited inputs.
C10_Witness ==
  /\ effectPending
  /\ edits = 1
  /\ inputs # DefaultInputs
  /\ results = calculateROI(DefaultInputs)
  /\ results # calculateROI(inputs)

====
